---------------------------- MODULE Spec2Model ----------------------------
(***************************************************************************)
(* Model of the openjournal operator scripts:                              *)
(*   src/deploy.py         the multi-site deployer (template copy,         *)
(*                         placeholder substitution, ownership)            *)
(*   src/tools/cleanup.py  the container-engine cleanup tool               *)
(*                                                                         *)
(* Python strings are sequences of one-character strings, so that split,   *)
(* strip, lower, count and replace are computed and not assumed.  Paths    *)
(* are sequences of path components relative to the script directory,      *)
(* which is the empty path.                                                *)
(***************************************************************************)
EXTENDS Integers, Sequences, FiniteSets, TLC

(***************************************************************************)
(* Bounds of the model.                                                    *)
(***************************************************************************)
\* deployer invocations in one behaviour
MaxRuns == 2
\* edits an operator makes to the script directory between invocations
MaxEdits == 1
\* pieces a file content is concatenated from (SpecReplace)
MaxPieces == 3

(***************************************************************************)
(* Constants of src/deploy.py.                                             *)
(***************************************************************************)
TEMPLATE_DIR == <<"j","o","u","r","n","a","l">>

WWW_DATA_UID == 33
WWW_DATA_GID == 33
MYSQL_UID == 999
MYSQL_GID == 999

EXIT_SUCCESS == 0
EXIT_USER_ERROR == 1
EXIT_PERMISSION_ERROR == 2

TOKEN_DOMAIN     == <<"{","{","D","O","M","A","I","N","}","}">>
TOKEN_JOURNAL    == <<"{","{","J","O","U","R","N","A","L","}","}">>
TOKEN_DATABASE   == <<"{","{","D","A","T","A","B","A","S","E","}","}">>
TOKEN_DB_HOST    == <<"{","{","D","B","_","H","O","S","T","}","}">>
TOKEN_ACME_EMAIL == <<"{","{","A","C","M","E","_","E","M","A","I","L","}","}">>
TOKEN_LOCALE     == <<"{","{","L","O","C","A","L","E","}","}">>

(***************************************************************************)
(* Python string operations.                                               *)
(***************************************************************************)
\* s[i:].startswith(t), 1-based
StartsWithAt(s, t, i) ==
    /\ i + Len(t) - 1 <= Len(s)
    /\ \A k \in 1..Len(t) : s[i + k - 1] = t[k]

\* t in s
Contains(s, t) == \E i \in 1..(Len(s) + 1) : StartsWithAt(s, t, i)

RECURSIVE CountFrom(_, _, _)
CountFrom(s, old, i) ==
    IF i + Len(old) - 1 > Len(s) THEN 0
    ELSE IF StartsWithAt(s, old, i) THEN 1 + CountFrom(s, old, i + Len(old))
    ELSE CountFrom(s, old, i + 1)

\* str.count(old): the non-overlapping occurrences, left to right
\* (old is never empty here: the tokens are constants)
StrCount(s, old) == CountFrom(s, old, 1)

RECURSIVE ReplaceFrom(_, _, _, _)
ReplaceFrom(s, old, new, i) ==
    IF i > Len(s) THEN <<>>
    ELSE IF StartsWithAt(s, old, i)
         THEN new \o ReplaceFrom(s, old, new, i + Len(old))
         ELSE <<s[i]>> \o ReplaceFrom(s, old, new, i + 1)

\* a plausible slip: str.replace(old, new, 1), only the first occurrence
RECURSIVE ReplaceFirstFrom(_, _, _, _)
ReplaceFirstFrom(s, old, new, i) ==
    IF i > Len(s) THEN <<>>
    ELSE IF StartsWithAt(s, old, i)
         THEN new \o SubSeq(s, i + Len(old), Len(s))
         ELSE <<s[i]>> \o ReplaceFirstFrom(s, old, new, i + 1)

StrReplaceFirstOnly(s, old, new) == ReplaceFirstFrom(s, old, new, 1)

\* str.replace(old, new): every non-overlapping occurrence, left to right
StrReplace(s, old, new) == ReplaceFrom(s, old, new, 1)

RECURSIVE FirstIndexFrom(_, _, _)
FirstIndexFrom(s, c, i) ==
    IF i > Len(s) THEN 0
    ELSE IF s[i] = c THEN i
    ELSE FirstIndexFrom(s, c, i + 1)

\* str.split(c)[0]: the text before the first c, the whole string without one
SplitFirst(s, c) ==
    LET i == FirstIndexFrom(s, c, 1)
    IN  IF i = 0 THEN s ELSE SubSeq(s, 1, i - 1)

IsSpace(c) == c \in {" ", "\t", "\n"}

RECURSIVE LStrip(_)
LStrip(s) ==
    IF s # <<>> /\ IsSpace(Head(s)) THEN LStrip(Tail(s)) ELSE s

RECURSIVE RStrip(_)
RStrip(s) ==
    IF s # <<>> /\ IsSpace(s[Len(s)]) THEN RStrip(SubSeq(s, 1, Len(s) - 1)) ELSE s

\* str.strip()
Strip(s) == LStrip(RStrip(s))

LowerChar(c) ==
    CASE c = "Y" -> "y"
      [] c = "E" -> "e"
      [] c = "S" -> "s"
      [] c = "N" -> "n"
      [] c = "O" -> "o"
      [] OTHER   -> c

\* str.lower(), on the alphabet of the answers of the model
Lower(s) == [i \in 1..Len(s) |-> LowerChar(s[i])]


(***************************************************************************)
(* The filesystem below the script directory.  A path is a sequence of     *)
(* components, the script directory is <<>>; fs maps each existing path    *)
(* to its node.                                                            *)
(***************************************************************************)
ScriptDir == <<>>

ENV_FILE     == <<".","e","n","v">>
COMPOSE_FILE == <<"c","o","m","p","o","s","e",".","y","m","l">>
VOLUMES      == <<"v","o","l","u","m","e","s">>
CONFIG       == <<"c","o","n","f","i","g">>
CONFIG_INC   == <<"c","o","n","f","i","g",".","i","n","c",".","p","h","p">>
DB           == <<"d","b">>
DB_DATA      == <<"i","b","d","a","t","a">>

DirNode(uid, gid)           == [kind |-> "dir",  content |-> <<>>, uid |-> uid, gid |-> gid]
FileNode(content, uid, gid) == [kind |-> "file", content |-> content, uid |-> uid, gid |-> gid]

\* Path.exists(), Path.is_dir()
Exists(f, p) == p \in DOMAIN f
IsDir(f, p)  == p \in DOMAIN f /\ f[p].kind = "dir"

\* q is p or lies below p
Under(p, q) == Len(p) <= Len(q) /\ SubSeq(q, 1, Len(p)) = p

\* a plausible slip: rmtree(p, ignore_errors=True) that removes nothing
RmTreeKeepsAll(f, p) == f

\* shutil.rmtree(p)
RmTree(f, p) == [q \in {q \in DOMAIN f : ~Under(p, q)} |-> f[q]]

\* script_dir / name: an empty name adds no component
Join(dir, name) == IF name = <<>> THEN dir ELSE dir \o <<name>>

\* shutil.copytree(src, dst): the copies belong to the process that makes them.
\* It raises, before it creates anything, when src cannot be listed or dst exists.
CopyTreeOk(f, src, dst) == IsDir(f, src) /\ ~Exists(f, dst)

CopyTree(f, src, dst, uid, gid) ==
    LET made == {dst \o SubSeq(q, Len(src) + 1, Len(q)) : q \in {q \in DOMAIN f : Under(src, q)}}
        from(p) == src \o SubSeq(p, Len(dst) + 1, Len(p))
    IN  [p \in DOMAIN f \cup made |->
            IF p \in made THEN [f[from(p)] EXCEPT !.uid = uid, !.gid = gid] ELSE f[p]]

\* _chown_recursive without its dry-run guard: os.walk yields nothing for a path
\* that is no directory, and visits everything below one that is
ChownWalk(f, path, uid, gid) ==
    IF ~IsDir(f, path) THEN f
    ELSE [q \in DOMAIN f |->
            IF Under(path, q) THEN [f[q] EXCEPT !.uid = uid, !.gid = gid] ELSE f[q]]

\* a plausible slip: the dry-run guard is missing
ChownIgnoringDryRun(f, path, uid, gid, dry_run) == ChownWalk(f, path, uid, gid)

\* _chown_recursive(path, uid, gid, dry_run=...)
ChownRecursive(f, path, uid, gid, dry_run) ==
    IF dry_run THEN f ELSE ChownWalk(f, path, uid, gid)

(***************************************************************************)
(* The invoking principal: its effective uid and the names of its groups   *)
(* ("?" is a gid the group database has no entry for).                     *)
(***************************************************************************)
Principals ==
    { [euid |-> 0,    groups |-> {"root"}],
      [euid |-> 1000, groups |-> {"users", "sudo"}],
      [euid |-> 1000, groups |-> {"users"}],
      [euid |-> 1000, groups |-> {"wheel", "?"}] }

\* a plausible slip: any group membership counts
HasPrivilegeAnyGroup(who) == who.euid = 0 \/ who.groups # {}

\* _has_privilege(): grp.getgrgid raises KeyError for a gid without an entry,
\* and the handler then answers False whatever the other groups are
HasPrivilege(who) ==
    \/ who.euid = 0
    \/ /\ "?" \notin who.groups
       /\ who.groups \cap {"sudo", "wheel"} # {}

\* os.chown to another owner is refused (PermissionError) to a process that is
\* not the superuser
ChownRaises(f, path, who, dry_run) ==
    ~dry_run /\ who.euid # 0 /\ IsDir(f, path)

(***************************************************************************)
(* Placeholder substitution.                                               *)
(***************************************************************************)
\* the loop of _replace_in_file: the content and the count it ends with
RECURSIVE ApplyReplacements(_, _)
ApplyReplacements(content, replacements) ==
    IF replacements = <<>> THEN [content |-> content, count |-> 0]
    ELSE LET old  == replacements[1][1]
             new  == replacements[1][2]
             occurrences == StrCount(content, old)
             next == IF occurrences # 0 THEN StrReplace(content, old, new) ELSE content
             rest == ApplyReplacements(next, Tail(replacements))
         IN  [content |-> rest.content, count |-> occurrences + rest.count]

\* _replace_in_file(filepath, replacements, dry_run=...): the filesystem after it
ReplaceInFile(f, filepath, replacements, dry_run) ==
    IF ~Exists(f, filepath) THEN f
    ELSE IF dry_run THEN f
    ELSE [f EXCEPT ![filepath].content = ApplyReplacements(@, replacements).content]

\* _extract_subdomain(domain)
ExtractSubdomain(domain) == SplitFirst(domain, ".")

DbName(subdomain)      == <<"d","b","-">> \o subdomain
JournalName(subdomain) == <<"j","o","u","r","n","a","l","-">> \o subdomain

\* the replacement lists of configure_env, configure_config_inc, configure_compose
EnvReplacements(domain, acme_email, subdomain) ==
    << <<TOKEN_DOMAIN, domain>>,
       <<TOKEN_ACME_EMAIL, acme_email>>,
       <<TOKEN_DB_HOST, DbName(subdomain)>> >>

ConfigReplacements(domain, locale, subdomain) ==
    << <<TOKEN_DOMAIN, domain>>,
       <<TOKEN_LOCALE, locale>>,
       <<TOKEN_DB_HOST, DbName(subdomain)>> >>

ComposeReplacements(subdomain) ==
    << <<TOKEN_JOURNAL, JournalName(subdomain)>>,
       <<TOKEN_DATABASE, DbName(subdomain)>> >>

\* args.email or f"admin@{domain}": an absent and an empty --email give the default
AcmeEmail(email, domain) ==
    IF email.given /\ email.value # <<>> THEN email.value
    ELSE <<"a","d","m","i","n","@">> \o domain

(***************************************************************************)
(* State.                                                                  *)
(***************************************************************************)
VARIABLES
    \* the deployer (src/deploy.py)
    fs,        \* the filesystem below the script directory
    pc,        \* where main() stands: "idle" (no process), a step, or "exited"
    exit,      \* the exit status, once pc = "exited"
    summary,   \* print_summary has printed for this invocation
    trace,     \* the steps this invocation has executed, in order
    run,       \* the parsed arguments
    who,       \* the principal that invokes the deployer
    reply,     \* what the confirmation prompt read, if it was shown
    runs,      \* invocations so far
    edits,     \* operator edits so far
    fs0,       \* the filesystem when this invocation started
    prev       \* the previous invocation: its arguments, the template it
               \* started from and the configured files it left

VARIABLES
    \* the cleanup tool (src/tools/cleanup.py)
    cpc,       \* where clean_docker() stands
    confirm,   \* what the confirmation prompt read
    ids,       \* the value of `ids`: what the last listing returned
    cmds       \* the commands handed to run_command, in order, with their results

VARIABLES
    \* one call of _replace_in_file
    rpc,       \* "call" before it, "returned" after
    rfs,       \* the filesystem it works on
    rfs0,      \* that filesystem before the call
    rargs,     \* its arguments: the replacement list and dry_run
    rcount     \* the count it logs

deployVars  == <<fs, pc, exit, summary, trace, run, who, reply, runs, edits, fs0, prev>>
cleanupVars == <<cpc, confirm, ids, cmds>>
replaceVars == <<rpc, rfs, rfs0, rargs, rcount>>

vars == <<deployVars, cleanupVars, replaceVars>>

(***************************************************************************)
(* Inputs of the deployer.                                                 *)
(***************************************************************************)
Domains ==
    { <<"a",".","x",".","y">>,
      <<"j","o","u","r","n","a","l",".","x">>,
      <<".","x">> }

Locales == { <<"e","n">>, <<"a","r">> }

Emails ==
    { [given |-> FALSE, value |-> <<>>],
      [given |-> TRUE,  value |-> <<"e","@","x">>] }

\* what input() meets: a line (without its newline), end of input, or Ctrl-C
Replies ==
    { [kind |-> "line", text |-> <<"y">>],
      [kind |-> "line", text |-> <<" ","Y","E","S"," ">>],
      [kind |-> "line", text |-> <<"n">>],
      [kind |-> "line", text |-> <<>>],
      [kind |-> "line", text |-> <<"y","e","s","s">>],
      [kind |-> "eof", text |-> <<>>],
      [kind |-> "interrupt", text |-> <<>>] }

NoReply == [kind |-> "none", text |-> <<>>]

\* a template as the repository ships it, and one without the optional files
TemplateFull ==
    LET u == 1000 IN
    (<<>> :> DirNode(u, u))
    @@ (<<ENV_FILE>> :> FileNode(TOKEN_DOMAIN \o <<";">> \o TOKEN_ACME_EMAIL
                                  \o <<";">> \o TOKEN_DB_HOST, u, u))
    @@ (<<COMPOSE_FILE>> :> FileNode(TOKEN_JOURNAL \o <<";">> \o TOKEN_DATABASE
                                      \o <<";">> \o TOKEN_JOURNAL, u, u))
    @@ (<<VOLUMES>> :> DirNode(u, u))
    @@ (<<VOLUMES, CONFIG>> :> DirNode(u, u))
    @@ (<<VOLUMES, CONFIG, CONFIG_INC>> :> FileNode(TOKEN_DOMAIN \o <<";">> \o TOKEN_LOCALE
                                                    \o <<";">> \o TOKEN_DB_HOST, u, u))
    @@ (<<VOLUMES, DB>> :> DirNode(u, u))
    @@ (<<VOLUMES, DB, DB_DATA>> :> FileNode(<<>>, u, u))

TemplateBare ==
    LET u == 1000 IN
    (<<>> :> DirNode(u, u))
    @@ (<<COMPOSE_FILE>> :> FileNode(TOKEN_JOURNAL, u, u))

\* an instance directory an operator left behind
StaleInstance ==
    LET u == 1000 IN
    (<<>> :> DirNode(u, u))
    @@ (<<ENV_FILE>> :> FileNode(<<"o","l","d">>, u, u))
    @@ (<<VOLUMES>> :> DirNode(u, u))

\* the tree `rel` (relative paths) placed at `root`
Tree(root, rel) ==
    [p \in {root \o r : r \in DOMAIN rel} |-> rel[SubSeq(p, Len(root) + 1, Len(p))]]

\* the part of f below `root`, as relative paths
SubTree(f, root) ==
    [r \in {SubSeq(q, Len(root) + 1, Len(q)) : q \in {q \in DOMAIN f : Under(root, q)}}
        |-> f[root \o r]]

\* main(), lines 345-349
TemplatePath    == Join(ScriptDir, TEMPLATE_DIR)
Subdomain(r)    == ExtractSubdomain(r.domain)
TargetDir(r)    == Join(ScriptDir, Subdomain(r))
VolumesDir(r)   == TargetDir(r) \o <<VOLUMES>>
DbDir(r)        == VolumesDir(r) \o <<DB>>

ConfiguredPaths == { <<ENV_FILE>>, <<VOLUMES, CONFIG, CONFIG_INC>>, <<COMPOSE_FILE>> }

\* the configured files of an instance directory: which exist, and their contents
ConfiguredFiles(f, target) ==
    [r \in {r \in ConfiguredPaths : Exists(f, target \o r)} |-> f[target \o r].content]

NoRun ==
    [domain |-> <<>>, locale |-> <<>>, email |-> [given |-> FALSE, value |-> <<>>],
     force |-> FALSE, dry_run |-> FALSE]

NoPrev == [valid |-> FALSE, run |-> NoRun, template |-> <<>>, files |-> <<>>, exit |-> 0]

DeployInit ==
    /\ \E t \in {TemplateFull, TemplateBare} :
         fs = (ScriptDir :> DirNode(1000, 1000)) @@ Tree(TemplatePath, t)
    /\ pc = "idle"
    /\ exit = 0
    /\ summary = FALSE
    /\ trace = <<>>
    /\ run = NoRun
    /\ who \in Principals
    /\ reply = NoReply
    /\ runs = 0
    /\ edits = 0
    /\ fs0 = fs
    /\ prev = NoPrev

\* what the invocation that has just exited leaves for the next one to compare with
Snapshot ==
    IF pc = "exited"
    THEN [valid |-> TRUE, run |-> run, template |-> SubTree(fs0, TemplatePath),
          files |-> ConfiguredFiles(fs, TargetDir(run)), exit |-> exit]
    ELSE prev

(***************************************************************************)
(* The operator, between invocations.                                      *)
(***************************************************************************)
InstanceDirs == {TargetDir([domain |-> d]) : d \in Domains} \ {ScriptDir}

\* overwrite (or create) a configured file of an instance directory
EditFile(dir, name) ==
    /\ pc \in {"idle", "exited"}
    /\ edits < MaxEdits /\ runs < MaxRuns
    /\ IsDir(fs, dir)
    /\ fs' = ((dir \o <<name>>) :> FileNode(<<"x">>, 1000, 1000)) @@ fs
    /\ edits' = edits + 1
    /\ prev' = Snapshot
    /\ pc' = "idle"
    /\ UNCHANGED <<exit, summary, trace, run, who, reply, runs, fs0>>
    /\ UNCHANGED <<cleanupVars, replaceVars>>

\* create an instance directory by hand
EditMkdir(dir) ==
    /\ pc \in {"idle", "exited"}
    /\ edits < MaxEdits /\ runs < MaxRuns
    /\ IsDir(fs, ScriptDir)
    /\ ~Exists(fs, dir)
    /\ fs' = Tree(dir, StaleInstance) @@ fs
    /\ edits' = edits + 1
    /\ prev' = Snapshot
    /\ pc' = "idle"
    /\ UNCHANGED <<exit, summary, trace, run, who, reply, runs, fs0>>
    /\ UNCHANGED <<cleanupVars, replaceVars>>

(***************************************************************************)
(* main() of src/deploy.py, one action per step.                           *)
(***************************************************************************)
\* a plausible slip: sys.exit() without the status
ExitWithoutStatus(code) == pc' = "exited" /\ exit' = 0

\* sys.exit(code), and the handlers of lines 408-416 for an exception
Exit(code) == pc' = "exited" /\ exit' = code

\* the process starts (the script is in the script directory) and parses its
\* arguments: lines 332-358
StartRun(domain, locale, email, force, dry_run) ==
    /\ pc \in {"idle", "exited"}
    /\ runs < MaxRuns
    /\ IsDir(fs, ScriptDir)
    /\ run' = [domain |-> domain, locale |-> locale, email |-> email,
               force |-> force, dry_run |-> dry_run]
    /\ runs' = runs + 1
    /\ prev' = Snapshot
    /\ fs0' = fs
    /\ pc' = "validate"
    /\ exit' = 0
    /\ summary' = FALSE
    /\ trace' = <<>>
    /\ reply' = NoReply
    /\ UNCHANGED <<fs, who, edits>>
    /\ UNCHANGED <<cleanupVars, replaceVars>>

\* validate_environment(template_dir)
ValidateEnvironment ==
    /\ pc = "validate"
    /\ trace' = Append(trace, "VALIDATE")
    /\ IF ~IsDir(fs, TemplatePath)
       THEN Exit(EXIT_USER_ERROR)
       ELSE pc' = "resolve" /\ exit' = exit
    /\ UNCHANGED <<fs, summary, run, who, reply, runs, edits, fs0, prev>>
    /\ UNCHANGED <<cleanupVars, replaceVars>>

\* a plausible slip: the answer is compared as typed
AffirmativeExact(text) == text \in { <<"y">>, <<"y","e","s">> }

\* reply not in ("y", "yes"), after .strip().lower()
Affirmative(text) == Lower(Strip(text)) \in { <<"y">>, <<"y","e","s">> }

\* handle_existing_target(target_dir, force=..., dry_run=...)
HandleExistingTarget ==
    /\ pc = "resolve"
    /\ trace' = Append(trace, "RESOLVE_COLLISION")
    /\ \/ /\ ~Exists(fs, TargetDir(run)) \/ run.dry_run
          /\ pc' = "copy"
          /\ UNCHANGED <<fs, exit, reply>>
       \/ /\ Exists(fs, TargetDir(run)) /\ ~run.dry_run /\ run.force
          /\ fs' = RmTree(fs, TargetDir(run))
          /\ pc' = "copy"
          /\ UNCHANGED <<exit, reply>>
       \/ /\ Exists(fs, TargetDir(run)) /\ ~run.dry_run /\ ~run.force
          /\ \E r \in Replies :
               /\ reply' = r
               /\ IF r.kind = "line" /\ Affirmative(r.text)
                  THEN fs' = RmTree(fs, TargetDir(run)) /\ pc' = "copy" /\ exit' = exit
                  ELSE fs' = fs /\ Exit(EXIT_USER_ERROR)
    /\ UNCHANGED <<summary, run, who, runs, edits, fs0, prev>>
    /\ UNCHANGED <<cleanupVars, replaceVars>>

\* copy_template(template_dir, target_dir, dry_run=...); an exception of
\* copytree reaches the handler of lines 414-416
CopyTemplate ==
    /\ pc = "copy"
    /\ trace' = Append(trace, "COPY")
    /\ IF run.dry_run
       THEN fs' = fs /\ pc' = "env" /\ exit' = exit
       ELSE IF CopyTreeOk(fs, TemplatePath, TargetDir(run))
       THEN /\ fs' = CopyTree(fs, TemplatePath, TargetDir(run), who.euid, who.euid)
            /\ pc' = "env" /\ exit' = exit
       ELSE fs' = fs /\ Exit(EXIT_USER_ERROR)
    /\ UNCHANGED <<summary, run, who, reply, runs, edits, fs0, prev>>
    /\ UNCHANGED <<cleanupVars, replaceVars>>

\* configure_env(target_dir / ".env", ...)
ConfigureEnv ==
    /\ pc = "env"
    /\ trace' = Append(trace, "SUBSTITUTE_ENV")
    /\ fs' = ReplaceInFile(fs, TargetDir(run) \o <<ENV_FILE>>,
                 EnvReplacements(run.domain, AcmeEmail(run.email, run.domain), Subdomain(run)),
                 run.dry_run)
    /\ pc' = "config"
    /\ UNCHANGED <<exit, summary, run, who, reply, runs, edits, fs0, prev>>
    /\ UNCHANGED <<cleanupVars, replaceVars>>

\* configure_config_inc(target_dir / "volumes" / "config" / "config.inc.php", ...)
ConfigureConfigInc ==
    /\ pc = "config"
    /\ trace' = Append(trace, "SUBSTITUTE_CONFIG")
    /\ fs' = ReplaceInFile(fs, TargetDir(run) \o <<VOLUMES, CONFIG, CONFIG_INC>>,
                 ConfigReplacements(run.domain, run.locale, Subdomain(run)),
                 run.dry_run)
    /\ pc' = "compose"
    /\ UNCHANGED <<exit, summary, run, who, reply, runs, edits, fs0, prev>>
    /\ UNCHANGED <<cleanupVars, replaceVars>>

\* configure_compose(target_dir / "compose.yml", ...)
ConfigureCompose ==
    /\ pc = "compose"
    /\ trace' = Append(trace, "SUBSTITUTE_COMPOSE")
    /\ fs' = ReplaceInFile(fs, TargetDir(run) \o <<COMPOSE_FILE>>,
                 ComposeReplacements(Subdomain(run)),
                 run.dry_run)
    /\ pc' = "chown"
    /\ UNCHANGED <<exit, summary, run, who, reply, runs, edits, fs0, prev>>
    /\ UNCHANGED <<cleanupVars, replaceVars>>

\* a plausible slip: the database pass runs first and the general pass undoes it
PermissionsDbFirst(f, r) ==
    ChownRecursive(
        ChownRecursive(f, DbDir(r), MYSQL_UID, MYSQL_GID, r.dry_run),
        VolumesDir(r), WWW_DATA_UID, WWW_DATA_GID, r.dry_run)

\* the two passes of set_permissions, lines 267-271
PermissionsPasses(f, r) ==
    ChownRecursive(
        ChownRecursive(f, VolumesDir(r), WWW_DATA_UID, WWW_DATA_GID, r.dry_run),
        DbDir(r), MYSQL_UID, MYSQL_GID, r.dry_run)

\* set_permissions(target_dir, dry_run=...); a PermissionError of os.chown
\* reaches the handler of lines 414-416
SetPermissions ==
    /\ pc = "chown"
    /\ trace' = Append(trace, "CHOWN")
    /\ IF ~HasPrivilege(who)
       THEN fs' = fs /\ Exit(EXIT_PERMISSION_ERROR)
       ELSE IF ChownRaises(fs, VolumesDir(run), who, run.dry_run)
       THEN fs' = fs /\ Exit(EXIT_USER_ERROR)
       ELSE fs' = PermissionsPasses(fs, run) /\ pc' = "done" /\ exit' = exit
    /\ UNCHANGED <<summary, run, who, reply, runs, edits, fs0, prev>>
    /\ UNCHANGED <<cleanupVars, replaceVars>>

\* main(), lines 399-405
Done ==
    /\ pc = "done"
    /\ trace' = Append(trace, "DONE")
    /\ summary' = ~run.dry_run
    /\ Exit(EXIT_SUCCESS)
    /\ UNCHANGED <<fs, run, who, reply, runs, edits, fs0, prev>>
    /\ UNCHANGED <<cleanupVars, replaceVars>>

DeployNext ==
    \/ \E d \in Domains, l \in Locales, e \in Emails, f \in BOOLEAN, n \in BOOLEAN :
          StartRun(d, l, e, f, n)
    \/ ValidateEnvironment
    \/ HandleExistingTarget
    \/ CopyTemplate
    \/ ConfigureEnv
    \/ ConfigureConfigInc
    \/ ConfigureCompose
    \/ SetPermissions
    \/ Done
    \/ \E dir \in InstanceDirs : EditFile(dir, ENV_FILE)
    \/ \E dir \in InstanceDirs : EditMkdir(dir)

(***************************************************************************)
(* src/tools/cleanup.py.                                                   *)
(***************************************************************************)
\* what input() meets
Confirmations ==
    { [kind |-> "line", text |-> <<"y","e","s">>],
      [kind |-> "line", text |-> <<"Y","E","S">>],
      [kind |-> "line", text |-> <<"Y","e","s">>],
      [kind |-> "line", text |-> <<" ","y","e","s">>],
      [kind |-> "line", text |-> <<"y">>],
      [kind |-> "line", text |-> <<"n","o">>],
      [kind |-> "line", text |-> <<>>],
      [kind |-> "eof", text |-> <<>>] }

\* what the engine's command line does: its exit status and its standard output
CommandOutcomes ==
    { [ok |-> TRUE,  stdout |-> <<>>],
      [ok |-> TRUE,  stdout |-> <<"\n">>],
      [ok |-> TRUE,  stdout |-> <<"a","1","\n","b","2","\n">>],
      [ok |-> FALSE, stdout |-> <<>>],
      [ok |-> FALSE, stdout |-> <<"a","1","\n">>] }

\* the value run_command returns: result.stdout.strip(), or None when the
\* command failed (check=True raises CalledProcessError)
RunCommand(outcome) ==
    IF outcome.ok THEN [none |-> FALSE, text |-> Strip(outcome.stdout)]
    ELSE [none |-> TRUE, text |-> <<>>]

PyNone == [none |-> TRUE, text |-> <<>>]

\* a plausible slip: `if ids is not None`
TruthyNotNone(v) == ~v.none

\* `if ids:`: None and the empty string are false
Truthy(v) == ~v.none /\ v.text # <<>>

\* a plausible slip: any answer that starts with y
ConfirmedByPrefix(text) == text # <<>> /\ LowerChar(text[1]) = "y"

\* not (confirm.lower() != "yes")
Confirmed(text) == Lower(text) = <<"y","e","s">>

CleanupInit ==
    /\ cpc = "prompt"
    /\ confirm = [kind |-> "none", text |-> <<>>]
    /\ ids = PyNone
    /\ cmds = <<>>

\* lines 36-41; an EOFError of input() is not caught and ends the process
Confirm ==
    /\ cpc = "prompt"
    /\ \E c \in Confirmations :
         /\ confirm' = c
         /\ cpc' = IF c.kind # "line" THEN "crashed"
                   ELSE IF Confirmed(c.text) THEN "ps_for_stop"
                   ELSE "cancelled"
    /\ UNCHANGED <<ids, cmds>>
    /\ UNCHANGED <<deployVars, replaceVars>>

\* ids = run_command(listing); if ids: ... else: ...
Listing(at, command, thenPc, elsePc) ==
    /\ cpc = at
    /\ \E o \in CommandOutcomes :
         /\ ids' = RunCommand(o)
         /\ cmds' = Append(cmds, [command |-> command, args |-> <<>>, outcome |-> o])
         /\ cpc' = IF Truthy(RunCommand(o)) THEN thenPc ELSE elsePc
    /\ UNCHANGED confirm
    /\ UNCHANGED <<deployVars, replaceVars>>

\* run_command(f"{command} {ids}"): the result is dropped
Removal(at, command, nextPc) ==
    /\ cpc = at
    /\ \E o \in CommandOutcomes :
         cmds' = Append(cmds, [command |-> command, args |-> ids.text, outcome |-> o])
    /\ cpc' = nextPc
    /\ UNCHANGED <<confirm, ids>>
    /\ UNCHANGED <<deployVars, replaceVars>>

ListContainersToStop == Listing("ps_for_stop", "docker ps -aq", "stop", "ps_for_rm")
StopContainers       == Removal("stop", "docker stop", "ps_for_rm")
ListContainersToRm   == Listing("ps_for_rm", "docker ps -aq", "rm", "images")
RemoveContainers     == Removal("rm", "docker rm", "images")
ListImages           == Listing("images", "docker images -q", "rmi", "volume_ls")
RemoveImages         == Removal("rmi", "docker rmi -f", "volume_ls")
ListVolumes          == Listing("volume_ls", "docker volume ls -q", "volume_rm", "network_prune")
RemoveVolumes        == Removal("volume_rm", "docker volume rm", "network_prune")

\* lines 83-88
PruneNetworks ==
    /\ cpc = "network_prune"
    /\ \E o \in CommandOutcomes :
         cmds' = Append(cmds, [command |-> "docker network prune -f", args |-> <<>>,
                               outcome |-> o])
    /\ cpc' = "complete"
    /\ UNCHANGED <<confirm, ids>>
    /\ UNCHANGED <<deployVars, replaceVars>>

CleanupNext ==
    \/ Confirm
    \/ ListContainersToStop
    \/ StopContainers
    \/ ListContainersToRm
    \/ RemoveContainers
    \/ ListImages
    \/ RemoveImages
    \/ ListVolumes
    \/ RemoveVolumes
    \/ PruneNetworks

(***************************************************************************)
(* One call of _replace_in_file, on any content and any replacement list   *)
(* the three configure_* functions can build.                              *)
(***************************************************************************)
Tokens ==
    { TOKEN_DOMAIN, TOKEN_JOURNAL, TOKEN_DATABASE, TOKEN_DB_HOST,
      TOKEN_ACME_EMAIL, TOKEN_LOCALE }

Pieces ==
    Tokens \cup { <<"{","{","D","B">>, <<"H","O","S","T","}","}">>, <<"x","=">> }

RECURSIVE ContentsUpTo(_)
ContentsUpTo(n) ==
    IF n = 0 THEN { <<>> }
    ELSE LET shorter == ContentsUpTo(n - 1)
         IN  shorter \cup { c \o p : c \in shorter, p \in Pieces }

\* argument values, the awkward ones included: a value that holds a token, an
\* empty value and a value that joins two fragments into a token
AnyDomains == { <<"a",".","x">>, TOKEN_ACME_EMAIL, <<>> }
AnyLocales == { <<"e","n">>, TOKEN_DOMAIN, <<"_">> }
AnyEmails  == { [given |-> FALSE, value |-> <<>>], [given |-> TRUE, value |-> TOKEN_DOMAIN] }

ReplacementLists ==
    { EnvReplacements(d, AcmeEmail(e, d), ExtractSubdomain(d)) : d \in AnyDomains, e \in AnyEmails }
    \cup { ConfigReplacements(d, l, ExtractSubdomain(d)) : d \in AnyDomains, l \in AnyLocales }
    \cup { ComposeReplacements(ExtractSubdomain(d)) : d \in AnyDomains }

TheFile == <<ENV_FILE>>

ReplaceInit ==
    /\ rpc = "call"
    /\ \E c \in ContentsUpTo(MaxPieces), present \in BOOLEAN :
         rfs = IF present THEN (TheFile :> FileNode(c, 1000, 1000))
               ELSE (<<>> :> DirNode(1000, 1000))
    /\ rfs0 = rfs
    /\ \E l \in ReplacementLists, n \in BOOLEAN :
         rargs = [replacements |-> l, dry_run |-> n]
    /\ rcount = 0

\* _replace_in_file(TheFile, replacements, dry_run=...); rcount is the count of
\* its log line (a missing file logs none)
ReplaceInFileCall ==
    /\ rpc = "call"
    /\ rfs' = ReplaceInFile(rfs, TheFile, rargs.replacements, rargs.dry_run)
    /\ rcount' = IF Exists(rfs, TheFile)
                 THEN ApplyReplacements(rfs[TheFile].content, rargs.replacements).count
                 ELSE 0
    /\ rpc' = "returned"
    /\ UNCHANGED <<rfs0, rargs>>
    /\ UNCHANGED <<deployVars, cleanupVars>>

DeployIdle ==
    /\ fs = (ScriptDir :> DirNode(1000, 1000))
    /\ pc = "idle" /\ exit = 0 /\ summary = FALSE /\ trace = <<>> /\ run = NoRun
    /\ who = [euid |-> 0, groups |-> {"root"}]
    /\ reply = NoReply /\ runs = 0 /\ edits = 0 /\ fs0 = fs /\ prev = NoPrev

CleanupIdle == CleanupInit

ReplaceIdle ==
    /\ rpc = "returned"
    /\ rfs = (<<>> :> DirNode(1000, 1000))
    /\ rfs0 = rfs
    /\ rargs = [replacements |-> <<>>, dry_run |-> TRUE]
    /\ rcount = 0

(***************************************************************************)
(* Specifications.                                                         *)
(***************************************************************************)
\* the deployer, run up to MaxRuns times, with operator edits in between
Init == DeployInit /\ CleanupIdle /\ ReplaceIdle
Next == DeployNext
Spec == Init /\ [][Next]_vars

\* the cleanup tool; clean_docker is sequential code, so a step that can be
\* taken is taken (every engine command is taken to return)
CleanupSpecInit == CleanupInit /\ DeployIdle /\ ReplaceIdle
CleanupSpec ==
    CleanupSpecInit /\ [][CleanupNext]_vars /\ WF_vars(CleanupNext)

\* one call of _replace_in_file
ReplaceSpecInit == ReplaceInit /\ DeployIdle /\ CleanupIdle
ReplaceNext == ReplaceInFileCall
ReplaceSpec == ReplaceSpecInit /\ [][ReplaceNext]_vars

(***************************************************************************)
(* Claims about the deployer, checked under Spec.                          *)
(***************************************************************************)
Running == pc # "idle"
Exited  == pc = "exited"
Owner(f, p) == <<f[p].uid, f[p].gid>>

PipelineOrder ==
    << "VALIDATE", "RESOLVE_COLLISION", "COPY", "SUBSTITUTE_ENV", "SUBSTITUTE_CONFIG",
       "SUBSTITUTE_COMPOSE", "CHOWN", "DONE" >>

Executed(step) == \E i \in 1..Len(trace) : trace[i] = step

\* C1: an invocation with --dry-run leaves the filesystem as it found it, at
\* every step and at its exit: nothing is deleted, copied, written or re-owned,
\* whatever the domain, --force, the principal and the state of the destination.
C1_DryRunNeverMutates ==
    (Running /\ run.dry_run) => fs = fs0

\* a dry run with --force by the superuser over an existing destination that
\* holds a volumes directory, run to its end
C1_Witness ==
    /\ Exited /\ run.dry_run /\ run.force /\ who.euid = 0
    /\ trace = PipelineOrder
    /\ IsDir(fs, VolumesDir(run))
    /\ TargetDir(run) # TemplatePath

\* C2: no invocation deletes, overwrites or re-owns a path of the template
\* directory, also when the destination is the template directory (instance
\* identifier "journal") or the script directory (empty identifier).
C2_TemplateReadOnly ==
    Running => SubTree(fs, TemplatePath) = SubTree(fs0, TemplatePath)

\* C4: when the prompt is shown (the destination exists, no --force, no
\* --dry-run), an answer that is "y" or "yes" after strip() and lower() deletes
\* the destination and goes on to the copy; every other answer, end of input
\* and an interrupt exit with status 1, the filesystem untouched and no later
\* step executed.  The prompt is shown in that case and in no other.
C4_Prompted == Running /\ reply.kind # "none"

C4_SaidYes ==
    reply.kind = "line" /\ Lower(Strip(reply.text)) \in { <<"y">>, <<"y","e","s">> }

C4_Outcomes ==
    /\ C4_Prompted => Exists(fs0, TargetDir(run)) /\ ~run.force /\ ~run.dry_run
    /\ (Running /\ Executed("RESOLVE_COLLISION") /\ Exists(fs0, TargetDir(run))
            /\ ~run.force /\ ~run.dry_run) => C4_Prompted
    /\ (C4_Prompted /\ C4_SaidYes) =>
          Executed("COPY") \/ (pc = "copy" /\ ~Exists(fs, TargetDir(run)))
    /\ (C4_Prompted /\ ~C4_SaidYes) =>
          /\ Exited /\ exit = 1
          /\ fs = fs0
          /\ trace = << "VALIDATE", "RESOLVE_COLLISION" >>
          /\ ~summary

\* the step itself: the answer decides between the deletion and the exit
C4_PromptStep ==
    (pc = "resolve" /\ reply'.kind # "none") =>
        IF C4_SaidYes'
        THEN fs' = RmTree(fs, TargetDir(run)) /\ pc' = "copy"
        ELSE fs' = fs /\ pc' = "exited" /\ exit' = 1

C4_CollisionOutcomes ==
    []C4_Outcomes /\ [][C4_PromptStep]_vars

\* the answer " YES " has deleted the destination and the copy is next; some
\* other run has declined
C4_Witness ==
    /\ C4_Prompted /\ reply.text = <<" ","Y","E","S"," ">>
    /\ pc = "copy" /\ ~Exists(fs, TargetDir(run))

\* C5: when set_permissions has completed in real mode for a privileged
\* principal, every path at or below <target>/volumes/db belongs to 999:999 and
\* every other path at or below <target>/volumes to 33:33, whatever the owners
\* were: the database pass comes after the general pass.
C5_PermissionsSet ==
    (Running /\ Executed("CHOWN") /\ (pc = "done" \/ Executed("DONE")) /\ ~run.dry_run) =>
        \A p \in DOMAIN fs :
            /\ Under(DbDir(run), p) => Owner(fs, p) = <<999, 999>>
            /\ (Under(VolumesDir(run), p) /\ ~Under(DbDir(run), p)) => Owner(fs, p) = <<33, 33>>

\* both subtrees exist and were owned by the operator before the step
C5_Witness ==
    /\ pc = "done" /\ ~run.dry_run
    /\ Exists(fs, DbDir(run) \o <<DB_DATA>>)
    /\ Exists(fs, VolumesDir(run) \o <<CONFIG, CONFIG_INC>>)
    /\ Owner(fs, DbDir(run)) = <<999, 999>>
    /\ Owner(fs, VolumesDir(run)) = <<33, 33>>

\* C6: a principal that is neither the superuser nor in sudo or wheel, at the
\* ownership step, exits with status 2: no owner changes, nothing is rolled
\* back (the filesystem stays as the substitutions left it), no summary; this
\* in dry-run mode as in real mode.  Status 2 means nothing else.
C6_Unprivileged ==
    who.euid # 0 /\ who.groups \cap {"sudo", "wheel"} = {}

C6_ExitsAtChown ==
    /\ (Exited /\ Executed("CHOWN") /\ C6_Unprivileged) =>
          exit = 2 /\ ~summary /\ ~Executed("DONE")
    /\ (Exited /\ exit = 2) => trace[Len(trace)] = "CHOWN"

C6_NoChangeNoRollback ==
    (pc = "chown" /\ C6_Unprivileged) =>
        (fs' = fs /\ pc' = "exited" /\ exit' = 2 /\ summary' = FALSE)

C6_PermissionError ==
    []C6_ExitsAtChown /\ [][C6_NoChangeNoRollback]_vars

\* real mode: the copied and substituted tree is on disk at the exit with
\* status 2; and a dry run has exited with status 2 as well
C6_Witness ==
    /\ Exited /\ exit = 2 /\ ~run.dry_run
    /\ C6_Unprivileged
    /\ IsDir(fs, VolumesDir(run))
    /\ ~Exists(fs0, TargetDir(run))
    /\ Exists(fs, TargetDir(run) \o <<ENV_FILE>>)
    /\ ~Contains(fs[TargetDir(run) \o <<ENV_FILE>>].content, TOKEN_DOMAIN)

\* C7 as stated: two successive invocations with --force, the same domain,
\* locale and email and the same template, the second over an existing
\* instance directory (one that is neither the template nor the script
\* directory), leave the same .env, config.inc.php and compose.yml, whatever
\* was edited in between.
C7_SameArguments ==
    /\ prev.valid
    /\ prev.run.domain = run.domain
    /\ prev.run.locale = run.locale
    /\ AcmeEmail(prev.run.email, prev.run.domain) = AcmeEmail(run.email, run.domain)
    /\ prev.template = SubTree(fs0, TemplatePath)

C7_ForceRerunIdempotent ==
    (Exited /\ C7_SameArguments /\ prev.run.force /\ run.force
        /\ TargetDir(run) \notin {TemplatePath, ScriptDir}
        /\ Exists(fs0, TargetDir(run))) =>
        ConfiguredFiles(fs, TargetDir(run)) = prev.files

\* C7 as amended: the same, for invocations without --dry-run that find the
\* template directory.
C7_RealForceRerunIdempotent ==
    (Exited /\ C7_SameArguments /\ prev.run.force /\ run.force
        /\ ~prev.run.dry_run /\ ~run.dry_run
        /\ IsDir(fs0, TemplatePath)
        /\ Exists(fs0, TargetDir(run))) =>
        ConfiguredFiles(fs, TargetDir(run)) = prev.files

\* the second invocation found the .env edited and has restored all three files
C7_Witness ==
    /\ Exited /\ C7_SameArguments /\ prev.run.force /\ run.force
    /\ ~prev.run.dry_run /\ ~run.dry_run
    /\ IsDir(fs0, TemplatePath)
    /\ Exists(fs0, TargetDir(run))
    /\ ConfiguredFiles(fs0, TargetDir(run)) # prev.files
    /\ DOMAIN prev.files = ConfiguredPaths
    /\ ConfiguredFiles(fs, TargetDir(run)) = prev.files

\* C8: the steps run in the order VALIDATE, RESOLVE_COLLISION, COPY, the three
\* substitutions, CHOWN, DONE, each at most once; an invocation that stops
\* before DONE exits with a non-zero status (1 at VALIDATE, RESOLVE_COLLISION
\* and COPY, 1 or 2 at CHOWN) and runs no step after it; the summary is printed
\* only after all eight steps, outside dry-run, with status 0.
C8_Order ==
    Running =>
    /\ Len(trace) <= Len(PipelineOrder)
    /\ trace = SubSeq(PipelineOrder, 1, Len(trace))
    /\ Exited =>
          /\ trace # <<>>
          /\ trace[Len(trace)] \in {"VALIDATE", "RESOLVE_COLLISION", "COPY", "CHOWN", "DONE"}
          /\ (trace[Len(trace)] = "DONE") <=> (exit = 0)
          /\ trace[Len(trace)] \in {"VALIDATE", "RESOLVE_COLLISION", "COPY"} => exit = 1
          /\ trace[Len(trace)] = "CHOWN" => exit \in {1, 2}
          /\ (Len(trace) = 1) <=> ~IsDir(fs0, TemplatePath)
    /\ summary => (Exited /\ trace = PipelineOrder /\ ~run.dry_run /\ exit = 0)
    /\ (Exited /\ trace = PipelineOrder /\ ~run.dry_run) => summary

C8_NoStepAfterExit ==
    Exited => (trace' = trace \/ (runs' = runs + 1 /\ trace' = <<>>))

C8_Pipeline ==
    []C8_Order /\ [][C8_NoStepAfterExit]_vars

\* a copy that failed: the template directory is gone when the copy is due
C8_Witness ==
    /\ Exited /\ exit = 1
    /\ trace = << "VALIDATE", "RESOLVE_COLLISION", "COPY" >>

(***************************************************************************)
(* Claims about the cleanup tool, checked under CleanupSpec.               *)
(***************************************************************************)
Answered == cpc # "prompt"

\* C3 as stated: an answer other than the exact string "yes" invokes no engine
\* command.
C3_ExactYesOnly ==
    (Answered /\ confirm.text # <<"y","e","s">>) => cmds = <<>>

\* C3 as amended: an answer that is not "yes" after lower() (nothing is
\* trimmed), and an end of input, invoke no engine command: the process ends
\* with run_command never called.
C3_SaidYes == confirm.kind = "line" /\ Lower(confirm.text) = <<"y","e","s">>

C3_NoCommandUnlessYes ==
    (Answered /\ ~C3_SaidYes) => (cmds = <<>> /\ cpc \in {"cancelled", "crashed"})

\* " yes" is not trimmed and cancels
C3_Witness ==
    cpc = "cancelled" /\ confirm.text = <<" ","y","e","s">> /\ cmds = <<>>

\* C9: after a confirmed cleanup the engine operations are issued in the order
\* stop, rm, rmi -f, volume rm, network prune; a stop or remove is issued only
\* right after its listing returned a non-empty result, and with that result;
\* no outcome of a listing or of an operation stops the run: the network prune
\* is issued and the run reaches "Cleanup Complete".
Operations ==
    << "docker stop", "docker rm", "docker rmi -f", "docker volume rm",
       "docker network prune -f" >>

ListingFor ==
    << "docker ps -aq", "docker ps -aq", "docker images -q", "docker volume ls -q" >>

IsOperation(c) == \E k \in 1..Len(Operations) : Operations[k] = c.command
Rank(c) == CHOOSE k \in 1..Len(Operations) : Operations[k] = c.command

C9_InOrder ==
    \A i, j \in 1..Len(cmds) :
        (i < j /\ IsOperation(cmds[i]) /\ IsOperation(cmds[j])) => Rank(cmds[i]) < Rank(cmds[j])

C9_OnlyAfterListing ==
    \A i \in 1..Len(cmds) :
        (IsOperation(cmds[i]) /\ Rank(cmds[i]) <= Len(ListingFor)) =>
            /\ i > 1
            /\ cmds[i - 1].command = ListingFor[Rank(cmds[i])]
            /\ cmds[i - 1].outcome.ok
            /\ Strip(cmds[i - 1].outcome.stdout) # <<>>
            /\ cmds[i].args = Strip(cmds[i - 1].outcome.stdout)

C9_PruneLast ==
    cpc = "complete" =>
        /\ cmds[Len(cmds)].command = "docker network prune -f"
        /\ \A i \in 1..(Len(cmds) - 1) : cmds[i].command # "docker network prune -f"

C9_Proceeding == cpc \notin {"prompt", "cancelled", "crashed"}

C9_CleanupSequence ==
    /\ [](C9_InOrder /\ C9_OnlyAfterListing /\ C9_PruneLast)
    /\ (C9_Proceeding ~> (cpc = "complete"))

\* the first listing failed, a removal failed, and the run is complete
C9_Witness ==
    /\ cpc = "complete"
    /\ ~cmds[1].outcome.ok
    /\ \E i \in 1..Len(cmds) : cmds[i].command = "docker rm" /\ ~cmds[i].outcome.ok

(***************************************************************************)
(* Claims about _replace_in_file, checked under ReplaceSpec.               *)
(***************************************************************************)
Written  == rfs[TheFile].content
Original == rfs0[TheFile].content
WroteFile == rpc = "returned" /\ ~rargs.dry_run /\ Exists(rfs0, TheFile)

RECURSIVE OccurrencesIn(_, _)
OccurrencesIn(content, replacements) ==
    IF replacements = <<>> THEN 0
    ELSE StrCount(content, replacements[1][1]) + OccurrencesIn(content, Tail(replacements))

NoTokenLeft ==
    \A i \in 1..Len(rargs.replacements) : ~Contains(Written, rargs.replacements[i][1])

\* C10 as stated: for every content and every replacement values, the written
\* content holds no token of the list and the count is the number of token
\* occurrences in the original content.
C10_AllTokensReplaced ==
    WroteFile => (NoTokenLeft /\ rcount = OccurrencesIn(Original, rargs.replacements))

\* C10 as amended: the same, when no replacement value holds a brace and none
\* (the empty value included) is a substring of a token of the list.
C10_PlainValues ==
    \A i \in 1..Len(rargs.replacements) :
        LET value == rargs.replacements[i][2] IN
        /\ ~Contains(value, <<"{">>)
        /\ ~Contains(value, <<"}">>)
        /\ \A j \in 1..Len(rargs.replacements) : ~Contains(rargs.replacements[j][1], value)

C10_TokensReplacedByPlainValues ==
    (WroteFile /\ C10_PlainValues) =>
        (NoTokenLeft /\ rcount = OccurrencesIn(Original, rargs.replacements))

\* a token that occurs twice, and a second token, have been replaced
C10_Witness ==
    /\ WroteFile /\ C10_PlainValues
    /\ rcount = 3
    /\ StrCount(Original, TOKEN_DOMAIN) = 2
    /\ NoTokenLeft
=============================================================================
